---- MODULE Spec2Model ----
(***************************************************************************)
(* Model of the identity-resolution core of esl-2/data_scrap:              *)
(*   spiders/find_missing_players_with_duplicates.py  (missing report)     *)
(*   spiders/find_cross_duplicates.py                 (common groups)      *)
(*                                                                         *)
(* Text is a sequence of one-character strings.  A JSON field value is a   *)
(* record [t, n, s]: t = "none" (absent or null), "int" (value n) or       *)
(* "str" (text s).  Positions are the 0-based indices Python uses.         *)
(***************************************************************************)
EXTENDS Integers, Sequences, FiniteSets, TLC

\* ------------------------------------------------------------------------
\* Bounds of the model
\* ------------------------------------------------------------------------
MaxSrc == 2
MaxTgt == 2
MaxNormLen == 3
MaxSimLen == 3

\* ------------------------------------------------------------------------
\* Field values
\* ------------------------------------------------------------------------
None == [t |-> "none", n |-> 0, s |-> <<>>]
IntV(k) == [t |-> "int", n |-> k, s |-> <<>>]
StrV(x) == [t |-> "str", n |-> 0, s |-> x]

\* Python truth value of a field value: None, 0 and "" are falsy.
Truthy(v) == \/ (v.t = "int" /\ v.n # 0)
             \/ (v.t = "str" /\ v.s # <<>>)

\* Python `a or b`: a when a is truthy, else b (whatever b is).
Or(a, b) == IF Truthy(a) THEN a ELSE b

Digits == <<"0", "1", "2", "3", "4", "5", "6", "7", "8", "9">>

RECURSIVE IntToStr(_)
\* str(n) for a non-negative int: its decimal digits.
IntToStr(k) == IF k < 10 THEN <<Digits[k + 1]>>
               ELSE IntToStr(k \div 10) \o <<Digits[(k % 10) + 1]>>

\* str(v) of a field value.
Str(v) == CASE v.t = "int" -> IntToStr(v.n)
            [] v.t = "str" -> v.s
            [] OTHER -> <<"N", "o", "n", "e">>

IsDigitChar(c) == \E k \in 1..10 : Digits[k] = c

\* str.isdigit(): non-empty and every character a digit.
IsDigit(x) == x # <<>> /\ \A k \in 1..Len(x) : IsDigitChar(x[k])

\* ------------------------------------------------------------------------
\* normalize_name
\* ------------------------------------------------------------------------
UpperCase == <<"A", "B", "C", "D", "E", "F", "G", "H", "I", "J", "K", "L", "M",
               "N", "O", "P", "Q", "R", "S", "T", "U", "V", "W", "X", "Y", "Z">>
LowerCase == <<"a", "b", "c", "d", "e", "f", "g", "h", "i", "j", "k", "l", "m",
               "n", "o", "p", "q", "r", "s", "t", "u", "v", "w", "x", "y", "z">>

\* unicodedata.normalize("NFKD", c) of one character: the precomposed
\* letters of the model's alphabet split into base letter + combining mark.
NFKD(c) == CASE c = "U+00FC" -> <<"u", "U+0308">>
             [] c = "U+00DC" -> <<"U", "U+0308">>
             [] OTHER -> <<c>>

\* unicodedata.combining(c) # 0
Combining(c) == c = "U+0308"

\* str.lower() of one character
Lower(c) == IF \E k \in 1..26 : UpperCase[k] = c
            THEN LowerCase[CHOOSE k \in 1..26 : UpperCase[k] = c]
            ELSE c

\* regex \w : letters, digits, underscore
IsWord(c) == \/ \E k \in 1..26 : (UpperCase[k] = c \/ LowerCase[k] = c)
             \/ IsDigitChar(c)
             \/ c = "_"
             \/ c = "U+00FC" \/ c = "U+00DC"

\* regex \s
IsSpace(c) == c = " " \/ c = "\t"

RECURSIVE Decompose(_)
Decompose(x) == IF x = <<>> THEN <<>> ELSE NFKD(Head(x)) \o Decompose(Tail(x))

RECURSIVE DropCombining(_)
DropCombining(x) ==
    IF x = <<>> THEN <<>>
    ELSE IF Combining(Head(x)) THEN DropCombining(Tail(x))
         ELSE <<Head(x)>> \o DropCombining(Tail(x))

LowerAll(x) == [k \in 1..Len(x) |-> Lower(x[k])]

RECURSIVE DropPunct(_)
\* re.sub(r"[^\w\s]", "", s)
DropPunct(x) ==
    IF x = <<>> THEN <<>>
    ELSE IF IsWord(Head(x)) \/ IsSpace(Head(x))
         THEN <<Head(x)>> \o DropPunct(Tail(x))
         ELSE DropPunct(Tail(x))

RECURSIVE CollapseSpace(_)
\* re.sub(r"\s+", " ", s): every maximal run of whitespace becomes one " "
CollapseSpace(x) ==
    IF x = <<>> THEN <<>>
    ELSE IF IsSpace(Head(x))
         THEN IF Tail(x) # <<>> /\ IsSpace(Head(Tail(x)))
              THEN CollapseSpace(Tail(x))
              ELSE <<" ">> \o CollapseSpace(Tail(x))
         ELSE <<Head(x)>> \o CollapseSpace(Tail(x))

RECURSIVE LStrip(_)
LStrip(x) == IF x # <<>> /\ IsSpace(Head(x)) THEN LStrip(Tail(x)) ELSE x

RECURSIVE RStrip(_)
RStrip(x) == IF x # <<>> /\ IsSpace(x[Len(x)])
             THEN RStrip(SubSeq(x, 1, Len(x) - 1)) ELSE x

\* str.strip()
Strip(x) == RStrip(LStrip(x))

\* normalize_name without s.lower()
normalize_name_no_lower(name) ==
    IF name.t # "str" THEN <<>>
    ELSE Strip(CollapseSpace(DropPunct(DropCombining(Decompose(name.s)))))

\* normalize_name(name): "" for anything that is not text.
normalize_name(name) ==
    IF name.t # "str" THEN <<>>
    ELSE Strip(CollapseSpace(DropPunct(LowerAll(DropCombining(Decompose(name.s))))))

\* ------------------------------------------------------------------------
\* similar: difflib.SequenceMatcher(None, a, b).ratio()
\* (no junk function; the automatic junk heuristic needs len(b) >= 200)
\* ------------------------------------------------------------------------
Min(x, y) == IF x < y THEN x ELSE y

\* a[i:i+k] == b[j:j+k]   (0-based)
BlockAt(a, b, i, j, k) == \A d \in 0..(k - 1) : a[i + d + 1] = b[j + d + 1]

\* SequenceMatcher.find_longest_match(alo, ahi, blo, bhi): the longest block
\* common to a[alo:ahi] and b[blo:bhi]; of the longest, the one starting
\* earliest in a; of those, the one starting earliest in b.  <<alo, blo, 0>>
\* when there is none.
find_longest_match(a, b, alo, ahi, blo, bhi) ==
    LET blocks == {m \in (alo..(ahi - 1)) \X (blo..(bhi - 1)) \X (1..Min(ahi - alo, bhi - blo)) :
                      /\ m[1] + m[3] <= ahi
                      /\ m[2] + m[3] <= bhi
                      /\ BlockAt(a, b, m[1], m[2], m[3])}
    IN IF blocks = {} THEN <<alo, blo, 0>>
       ELSE CHOOSE m \in blocks :
              \A o \in blocks :
                 \/ o[3] < m[3]
                 \/ (o[3] = m[3] /\ m[1] < o[1])
                 \/ (o[3] = m[3] /\ m[1] = o[1] /\ m[2] <= o[2])

RECURSIVE matches(_, _, _, _, _, _)
\* Total size of SequenceMatcher.get_matching_blocks(): the longest block,
\* then the same on the pieces left and right of it.
matches(a, b, alo, ahi, blo, bhi) ==
    LET m == find_longest_match(a, b, alo, ahi, blo, bhi)
        i == m[1]
        j == m[2]
        k == m[3]
    IN IF k = 0 THEN 0
       ELSE k + (IF alo < i /\ blo < j THEN matches(a, b, alo, i, blo, j) ELSE 0)
              + (IF i + k < ahi /\ j + k < bhi THEN matches(a, b, i + k, ahi, j + k, bhi) ELSE 0)

\* similar with the length of a counted twice instead of len(a) + len(b)
similar_len_a(a, b) ==
    LET length == 2 * Len(a)
    IN IF length = 0 THEN <<1, 1>>
       ELSE <<2 * matches(a, b, 0, Len(a), 0, Len(b)), length>>

\* similar without the factor 2: matches / (len(a) + len(b))
similar_single(a, b) ==
    LET length == Len(a) + Len(b)
    IN IF length = 0 THEN <<1, 1>>
       ELSE <<matches(a, b, 0, Len(a), 0, Len(b)), length>>

\* ratio(): 2.0 * matches / (len(a) + len(b)), 1.0 when both are empty.
\* The float is kept as the exact fraction <<numerator, denominator>>.
similar(a, b) ==
    LET length == Len(a) + Len(b)
    IN IF length = 0 THEN <<1, 1>>
       ELSE <<2 * matches(a, b, 0, Len(a), 0, Len(b)), length>>

\* comparisons of fractions with positive denominators
FracGt(x, y) == x[1] * y[2] > y[1] * x[2]
FracGe(x, y) == x[1] * y[2] >= y[1] * x[2]
FracEq(x, y) == x[1] * y[2] = y[1] * x[2]

\* ------------------------------------------------------------------------
\* Player records and canonical keys
\* ------------------------------------------------------------------------
\* A player record: the fields the core interprets.  The pass-through fields
\* (name_ar, the urls) are copied to the output untouched and are left out.
Player(tm_id, tmId, tm_sp, tm, gid, nm) ==
    [transfermarkt_id |-> tm_id, transfermarktId |-> tmId,
     transfermarkt_sp |-> tm_sp, transfermarkt |-> tm, id |-> gid, name |-> nm]

TidPrefix == <<"t", "i", "d", ":", ":">>
NamePrefix == <<"n", "a", "m", "e", ":", ":">>
IndexPrefix == <<"i", "n", "d", "e", "x", ":", ":">>
RawPrefix(filetag) ==
    <<"r", "a", "w", ":", ":">>
    \o (IF filetag = "source" THEN <<"s", "o", "u", "r", "c", "e">>
        ELSE <<"t", "a", "r", "g", "e", "t">>)
    \o <<":", ":">>

\* The identifier of a record: the alias chain joined by `or`, then the
\* generic id when the chain gave None and id is an int or a digit string.
\* The same five lines stand in key_for_player, build_target_lookup,
\* find_missing_and_flag_duplicates and canonical_keys.
tid_of(p) ==
    LET tid == Or(Or(Or(p.transfermarkt_id, p.transfermarktId), p.transfermarkt_sp),
                  p.transfermarkt)
    IN IF tid.t = "none"
       THEN IF p.id.t = "int" \/ (p.id.t = "str" /\ IsDigit(p.id.s)) THEN p.id ELSE None
       ELSE tid

\* normalize_name(p.get("name") or "")
nn_of(p) == normalize_name(Or(p.name, StrV(<<>>)))

\* key_for_player with the name key put before the tid key
key_for_player_name_first(p) ==
    LET tid == tid_of(p)
        nn == nn_of(p)
    IN (IF nn # <<>> THEN <<NamePrefix \o nn>> ELSE <<>>)
       \o (IF tid.t # "none" THEN <<TidPrefix \o Str(tid)>> ELSE <<>>)

\* key_for_player(p): the tid key (when tid is not None), then the name key
\* (when the normalized name is non-empty).
key_for_player(p) ==
    LET tid == tid_of(p)
        nn == nn_of(p)
    IN (IF tid.t # "none" THEN <<TidPrefix \o Str(tid)>> ELSE <<>>)
       \o (IF nn # <<>> THEN <<NamePrefix \o nn>> ELSE <<>>)

\* canonical_keys without the identifier key
canonical_keys_name_only(player) ==
    LET nn == nn_of(player)
    IN IF nn # <<>> THEN <<NamePrefix \o nn>> ELSE <<>>

\* canonical_keys(player) of find_cross_duplicates.py: the same keys.
canonical_keys(player) ==
    LET tid == tid_of(player)
        nn == nn_of(player)
    IN (IF tid.t # "none" THEN <<TidPrefix \o Str(tid)>> ELSE <<>>)
       \o (IF nn # <<>> THEN <<NamePrefix \o nn>> ELSE <<>>)

\* ------------------------------------------------------------------------
\* Clustering: an insertion-ordered dict is a sequence of [key, items]
\* ------------------------------------------------------------------------
\* d.setdefault(k, []).append(item)
SetDefaultAppend(d, k, item) ==
    IF \E n \in 1..Len(d) : d[n].key = k
    THEN LET n == CHOOSE n \in 1..Len(d) : d[n].key = k
         IN [d EXCEPT ![n].items = Append(@, item)]
    ELSE Append(d, [key |-> k, items |-> <<item>>])

RECURSIVE AppendUnderKeys(_, _, _)
\* for k in keys: d.setdefault(k, []).append(item)
AppendUnderKeys(d, keys, item) ==
    IF keys = <<>> THEN d
    ELSE AppendUnderKeys(SetDefaultAppend(d, Head(keys), item), Tail(keys), item)

RECURSIVE by_key_shared_fallback(_, _)
\* the first loop with the fallback key "index::" for every keyless record
by_key_shared_fallback(players, n) ==
    IF n = 0 THEN <<>>
    ELSE LET d == by_key_shared_fallback(players, n - 1)
             p == players[n]
             keys == key_for_player(p)
             item == [index |-> n - 1, player |-> p]
         IN IF keys = <<>>
            THEN SetDefaultAppend(d, IndexPrefix, item)
            ELSE AppendUnderKeys(d, keys, item)

RECURSIVE by_key(_, _)
\* find_duplicates, first loop: by_key after the first n players.
by_key(players, n) ==
    IF n = 0 THEN <<>>
    ELSE LET d == by_key(players, n - 1)
             p == players[n]
             keys == key_for_player(p)
             item == [index |-> n - 1, player |-> p]
         IN IF keys = <<>>
            THEN SetDefaultAppend(d, IndexPrefix \o IntToStr(n - 1), item)
            ELSE AppendUnderKeys(d, keys, item)

SeqMap(Op(_), x) == [k \in 1..Len(x) |-> Op(x[k])]
IndexOf(item) == item.index
PlayerOf(item) == item.player

\* tuple(sorted(item["index"] for item in lst)); the indices of one bucket
\* are distinct, so the sorted tuple is kept as the set of its elements.
member_ids_of(lst) == {lst[k].index : k \in 1..Len(lst)}

RECURSIVE collect_duplicates_noseen(_, _)
\* the second loop without the seen_member_ids test
collect_duplicates_noseen(d, n) ==
    IF n = 0 THEN [groups |-> <<>>, seen |-> {}]
    ELSE LET acc == collect_duplicates_noseen(d, n - 1)
             k == d[n].key
             lst == d[n].items
         IN IF Len(lst) > 1
            THEN [groups |-> Append(acc.groups,
                                    [key |-> k,
                                     indices |-> SeqMap(IndexOf, lst),
                                     members |-> SeqMap(PlayerOf, lst)]),
                  seen |-> acc.seen \cup {member_ids_of(lst)}]
            ELSE acc

RECURSIVE collect_duplicates(_, _)
\* find_duplicates, second loop, after the first n buckets:
\* [groups, seen_member_ids].
collect_duplicates(d, n) ==
    IF n = 0 THEN [groups |-> <<>>, seen |-> {}]
    ELSE LET acc == collect_duplicates(d, n - 1)
             k == d[n].key
             lst == d[n].items
             member_ids == member_ids_of(lst)
         IN IF Len(lst) > 1
            THEN IF member_ids \in acc.seen
                 THEN acc
                 ELSE [groups |-> Append(acc.groups,
                                         [key |-> k,
                                          indices |-> SeqMap(IndexOf, lst),
                                          members |-> SeqMap(PlayerOf, lst)]),
                       seen |-> acc.seen \cup {member_ids}]
            ELSE acc

find_duplicates(players) ==
    LET d == by_key(players, Len(players))
    IN collect_duplicates(d, Len(d)).groups

\* ------------------------------------------------------------------------
\* find_common_groups (find_cross_duplicates.py)
\* ------------------------------------------------------------------------
\* compact_player_view(p), without the pass-through fields.
compact_player_view(p) ==
    [name |-> p.name, transfermarkt_id |-> Or(Or(p.transfermarkt_id, p.id), None)]

\* combined: the source occurrences, then the target occurrences.
combined(source_list, target_list) ==
    [k \in 1..Len(source_list) |-> [file |-> "source", index |-> k - 1, player |-> source_list[k]]]
    \o [k \in 1..Len(target_list) |-> [file |-> "target", index |-> k - 1, player |-> target_list[k]]]

RECURSIVE groups_map(_, _)
\* groups_map after the first n occurrences of combined.
groups_map(occs, n) ==
    IF n = 0 THEN <<>>
    ELSE LET d == groups_map(occs, n - 1)
             o == occs[n]
             keys == canonical_keys(o.player)
         IN IF keys = <<>>
            THEN SetDefaultAppend(d, RawPrefix(o.file) \o IntToStr(o.index), o)
            ELSE AppendUnderKeys(d, keys, o)

\* tuple(sorted((o["file"], o["index"]) for o in occ)), kept as a set: the
\* occurrences of one bucket are distinct.
sig_of(occ) == {<<occ[k].file, occ[k].index>> : k \in 1..Len(occ)}

\* sorted(list({o["file"] for o in occ}))
present_in_of(occ) ==
    LET files == {occ[k].file : k \in 1..Len(occ)}
    IN (IF "source" \in files THEN <<"source">> ELSE <<>>)
       \o (IF "target" \in files THEN <<"target">> ELSE <<>>)

OccView(o) == [file |-> o.file, index |-> o.index, player |-> compact_player_view(o.player)]

RECURSIVE collect_common(_, _)
\* find_common_groups, second loop, after the first n buckets:
\* [groups, sigs], sigs[g] the signature of final_groups[g].
collect_common(d, n) ==
    IF n = 0 THEN [groups |-> <<>>, sigs |-> <<>>]
    ELSE LET acc == collect_common(d, n - 1)
             k == d[n].key
             occ == d[n].items
             sig == sig_of(occ)
         IN IF Cardinality(sig) <= 1 THEN acc
            ELSE IF \E g \in 1..Len(acc.sigs) : acc.sigs[g] = sig
                 THEN LET g == CHOOSE g \in 1..Len(acc.sigs) : acc.sigs[g] = sig
                      IN [acc EXCEPT !.groups[g].keys = Append(@, k)]
                 ELSE [groups |-> Append(acc.groups,
                                         [keys |-> <<k>>,
                                          total_count |-> Len(occ),
                                          occurrences |-> SeqMap(OccView, occ),
                                          present_in |-> present_in_of(occ)]),
                       sigs |-> Append(acc.sigs, sig)]

find_common_groups(source_list, target_list) ==
    LET occs == combined(source_list, target_list)
        d == groups_map(occs, Len(occs))
    IN collect_common(d, Len(d)).groups

\* ------------------------------------------------------------------------
\* build_target_lookup and the classification of one source record
\* ------------------------------------------------------------------------
\* build_target_lookup(target_players): (ids, normnames)
build_target_lookup(target_players) ==
    [ids |-> {Str(tid_of(target_players[k])) :
                 k \in {j \in 1..Len(target_players) : tid_of(target_players[j]).t # "none"}},
     normnames |-> {nn_of(target_players[k]) :
                 k \in {j \in 1..Len(target_players) : nn_of(target_players[j]) # <<>>}}]

\* The fuzzy scan: best = 0.0, raised to every larger similar(nn, cand).
best_ratio(nn, normnames) ==
    LET rs == {similar(nn, cand) : cand \in normnames} \cup {<<0, 1>>}
    IN CHOOSE r \in rs : \A q \in rs : FracGe(r, q)

\* found with `best > fuzzy_threshold` in the fuzzy rule
found_of_strict(p, ids, normnames, fuzzy_threshold) ==
    LET tid == tid_of(p)
        tid_s == IF tid.t # "none" THEN StrV(Str(tid)) ELSE None
        nn == nn_of(p)
        found1 == Truthy(tid_s) /\ tid_s.s \in ids
        found2 == found1 \/ (nn # <<>> /\ nn \in normnames)
    IN found2 \/ (nn # <<>> /\ FracGt(best_ratio(nn, normnames), <<fuzzy_threshold, 100>>))

\* found without the fuzzy rule
found_of_no_fuzzy(p, ids, normnames, fuzzy_threshold) ==
    LET tid == tid_of(p)
        tid_s == IF tid.t # "none" THEN StrV(Str(tid)) ELSE None
        nn == nn_of(p)
        found1 == Truthy(tid_s) /\ tid_s.s \in ids
    IN found1 \/ (nn # <<>> /\ nn \in normnames)

\* found with the identifier rule `if tid_s:` (no look-up in target_ids)
found_of_any_id(p, ids, normnames, fuzzy_threshold) ==
    LET tid == tid_of(p)
        tid_s == IF tid.t # "none" THEN StrV(Str(tid)) ELSE None
        nn == nn_of(p)
        found1 == Truthy(tid_s)
        found2 == found1 \/ (nn # <<>> /\ nn \in normnames)
    IN found2 \/ (nn # <<>> /\ FracGe(best_ratio(nn, normnames), <<fuzzy_threshold, 100>>))

\* found without the identifier rule
found_of_no_id(p, ids, normnames, fuzzy_threshold) ==
    LET nn == nn_of(p)
        found2 == nn # <<>> /\ nn \in normnames
    IN found2 \/ (nn # <<>> /\ FracGe(best_ratio(nn, normnames), <<fuzzy_threshold, 100>>))

\* found, as the loop body of find_missing_and_flag_duplicates sets it.
\* fuzzy_threshold is in hundredths.
found_of(p, ids, normnames, fuzzy_threshold) ==
    LET tid == tid_of(p)
        tid_s == IF tid.t # "none" THEN StrV(Str(tid)) ELSE None
        nn == nn_of(p)
        found1 == Truthy(tid_s) /\ tid_s.s \in ids
        found2 == found1 \/ (nn # <<>> /\ nn \in normnames)
    IN found2 \/ (nn # <<>> /\ FracGe(best_ratio(nn, normnames), <<fuzzy_threshold, 100>>))

\* found after the two exact rules of the loop body (lines 130-139): the
\* identifier rule `tid_s and tid_s in target_ids`, then the name rule
found_exact(p, ids, normnames) ==
    LET tid == tid_of(p)
        tid_s == IF tid.t # "none" THEN StrV(Str(tid)) ELSE None
        nn == nn_of(p)
        found1 == Truthy(tid_s) /\ tid_s.s \in ids
    IN found1 \/ (nn # <<>> /\ nn \in normnames)

GroupKeys(groups) == {groups[g].key : g \in 1..Len(groups)}

\* {g["key"]: g for g in groups}.get(k)
GroupOf(groups, k) == groups[CHOOSE g \in 1..Len(groups) : groups[g].key = k]

Preview(m) == [name |-> m.name, transfermarkt_id |-> Or(m.transfermarkt_id, m.id)]

PreviewLimit == 5

\* one element of entry["duplicate_groups"]
GroupSummary(k, g) ==
    [key |-> k,
     member_count |-> Len(g.members),
     members_preview |-> SeqMap(Preview, SubSeq(g.members, 1, Min(PreviewLimit, Len(g.members))))]

\* dup_info that looks up only the first key of the record
dup_info_first_key(keys, dup_src_groups, dup_tgt_groups) ==
    IF keys = <<>> THEN <<>>
    ELSE LET k == Head(keys)
         IN (IF k \in GroupKeys(dup_src_groups)
             THEN <<[where |-> "source", key |-> k, group |-> GroupOf(dup_src_groups, k)]>>
             ELSE <<>>)
            \o (IF k \in GroupKeys(dup_tgt_groups)
                THEN <<[where |-> "target", key |-> k, group |-> GroupOf(dup_tgt_groups, k)]>>
                ELSE <<>>)

RECURSIVE dup_info(_, _, _)
\* dup_info: for each key in order, the source group, then the target group.
dup_info(keys, dup_src_groups, dup_tgt_groups) ==
    IF keys = <<>> THEN <<>>
    ELSE LET k == Head(keys)
         IN (IF k \in GroupKeys(dup_src_groups)
             THEN <<[where |-> "source", key |-> k, group |-> GroupOf(dup_src_groups, k)]>>
             ELSE <<>>)
            \o (IF k \in GroupKeys(dup_tgt_groups)
                THEN <<[where |-> "target", key |-> k, group |-> GroupOf(dup_tgt_groups, k)]>>
                ELSE <<>>)
            \o dup_info(Tail(keys), dup_src_groups, dup_tgt_groups)

\* sorted(set(dup_locations))
dup_locations_of(info) ==
    LET locs == {info[k].where : k \in 1..Len(info)}
    IN (IF "source" \in locs THEN <<"source">> ELSE <<>>)
       \o (IF "target" \in locs THEN <<"target">> ELSE <<>>)

SummaryOf(i) == GroupSummary(i.key, i.group)

\* The entry built for one source record; duplicate = FALSE stands for an
\* entry without the duplicate, duplicate_in and duplicate_groups fields.
entry_of(p, found, dup_src_groups, dup_tgt_groups) ==
    LET tid == tid_of(p)
        info == dup_info(key_for_player(p), dup_src_groups, dup_tgt_groups)
        dup_locations == dup_locations_of(info)
    IN [name |-> p.name,
        transfermarkt_id |-> (IF tid.t # "none" THEN StrV(Str(tid)) ELSE None),
        duplicate |-> dup_locations # <<>>,
        duplicate_in |-> dup_locations,
        duplicate_groups |-> SeqMap(SummaryOf, info),
        missing |-> ~found]

\* the loop body appending every entry
appended_always(entry, found) == <<entry>>

\* What the loop body appends to missing for an entry.
appended(entry, found) ==
    IF ~found THEN <<entry>>
    ELSE IF entry.duplicate_in # <<>> THEN <<entry>> ELSE <<>>

\* ------------------------------------------------------------------------
\* Inputs
\* ------------------------------------------------------------------------
NoFields == Player(None, None, None, None, None, None)

\* {"transfermarkt_id": "7", "name": "ab"}
P_id7_ab == [NoFields EXCEPT !.transfermarkt_id = StrV(<<"7">>), !.name = StrV(<<"a", "b">>)]
\* {"name": "Ab."}
P_name_Ab == [NoFields EXCEPT !.name = StrV(<<"A", "b", ".">>)]
\* {"id": 7, "name": "abc"}
P_gid7_abc == [NoFields EXCEPT !.id = IntV(7), !.name = StrV(<<"a", "b", "c">>)]
\* {"transfermarkt": ""}
P_empty_tm == [NoFields EXCEPT !.transfermarkt = StrV(<<>>)]
\* {}
P_nokeys == NoFields

Players == {P_id7_ab, P_name_Ab, P_gid7_abc, P_empty_tm, P_nokeys}

\* --fuzzy, in hundredths; 90 is the default
DefaultThreshold == 90
Thresholds == {80, DefaultThreshold}

SeqsUpTo(S, n) == UNION {[1..k -> S] : k \in 0..n}

GeneralInputs ==
    [source : SeqsUpTo(Players, MaxSrc), target : SeqsUpTo(Players, MaxTgt),
     fuzzy_threshold : Thresholds]

\* --fuzzy 0 is accepted by the parser although it is outside (0, 1]
ZeroThresholdInputs ==
    [source : SeqsUpTo(Players, 1), target : SeqsUpTo(Players, 1), fuzzy_threshold : {0}]

\* {"name": "Ana Horvat"} and {"name": "Ana Horvath"}
P_AnaHorvat == [NoFields EXCEPT !.name = StrV(<<"A", "n", "a", " ", "H", "o", "r", "v", "a", "t">>)]
P_AnaHorvath == [NoFields EXCEPT !.name = StrV(<<"A", "n", "a", " ", "H", "o", "r", "v", "a", "t", "h">>)]
\* {"name": "Jon Smith", "transfermarkt_id": "7"} and {"name": "John Smith", "transfermarkt_id": "7"}
P_JonSmith == [NoFields EXCEPT !.transfermarkt_id = StrV(<<"7">>),
                               !.name = StrV(<<"J", "o", "n", " ", "S", "m", "i", "t", "h">>)]
P_JohnSmith == [NoFields EXCEPT !.transfermarkt_id = StrV(<<"7">>),
                                !.name = StrV(<<"J", "o", "h", "n", " ", "S", "m", "i", "t", "h">>)]
\* records with transfermarkt_id "42": no name, name "ab", name "abc"
P_42 == [NoFields EXCEPT !.transfermarkt_id = StrV(<<"4", "2">>)]
P_42_ab == [P_42 EXCEPT !.name = StrV(<<"a", "b">>)]
P_42_abc == [P_42 EXCEPT !.name = StrV(<<"a", "b", "c">>)]

\* The scenarios of the specification's section 8.
Scenarios ==
    {[source |-> <<P_AnaHorvat>>, target |-> <<P_AnaHorvath>>, fuzzy_threshold |-> DefaultThreshold],
     [source |-> <<P_JonSmith>>, target |-> <<P_JohnSmith>>, fuzzy_threshold |-> DefaultThreshold]}
    \cup [source : [1..2 -> {P_42, P_42_ab, P_42_abc}],
          target : SeqsUpTo({P_name_Ab, P_nokeys, P_id7_ab}, 1),
          fuzzy_threshold : {DefaultThreshold}]

\* records whose identifier sits under an alias, is falsy, or is a generic id
\* {"transfermarkt_id": 0, "transfermarktId": "9"}
A_zero_tmId9 == [NoFields EXCEPT !.transfermarkt_id = IntV(0), !.transfermarktId = StrV(<<"9">>)]
\* {"transfermarkt_id": "", "id": 5}
A_empty_gid5 == [NoFields EXCEPT !.transfermarkt_id = StrV(<<>>), !.id = IntV(5)]
\* {"transfermarkt_id": 0}
A_zero == [NoFields EXCEPT !.transfermarkt_id = IntV(0)]
\* {"transfermarkt": 0}
A_tm_zero == [NoFields EXCEPT !.transfermarkt = IntV(0)]
\* {"transfermarktId": "9"}
A_tmId9 == [NoFields EXCEPT !.transfermarktId = StrV(<<"9">>)]
\* {"transfermarkt id": "9", "transfermarkt": "8"}
A_sp9_tm8 == [NoFields EXCEPT !.transfermarkt_sp = StrV(<<"9">>), !.transfermarkt = StrV(<<"8">>)]
\* {"id": "x7", "name": "ab"}
A_gid_x7_ab == [NoFields EXCEPT !.id = StrV(<<"x", "7">>), !.name = StrV(<<"a", "b">>)]
\* {"id": "12"}
A_gid12 == [NoFields EXCEPT !.id = StrV(<<"1", "2">>)]

AliasPlayers == {A_zero_tmId9, A_empty_gid5, A_zero, A_tm_zero, A_tmId9, A_sp9_tm8,
                 A_gid_x7_ab, A_gid12}

AliasInputs ==
    [source : SeqsUpTo(AliasPlayers, 2), target : SeqsUpTo(AliasPlayers, 1),
     fuzzy_threshold : {DefaultThreshold}]

\* more members than a preview shows: five records with identifier "7" and
\* one with "42", all six named "ab"
SixNamedAb == <<P_id7_ab, P_id7_ab, P_id7_ab, P_id7_ab, P_id7_ab, P_42_ab>>
LargeGroupInputs ==
    [source : {SixNamedAb}, target : {<<>>, <<P_id7_ab, P_id7_ab>>, SixNamedAb},
     fuzzy_threshold : {DefaultThreshold}]

\* ------------------------------------------------------------------------
\* Files: what a path holds, load_json_path, write_json, write_csv
\* ------------------------------------------------------------------------
\* a path that does not exist
NoPath == [exists |-> FALSE]
\* a file whose bytes are not UTF-8
NotUtf8 == [exists |-> TRUE, text |-> "undecodable"]
\* a file json.loads accepts: a list, one object, or a number / true / null
JsonList(items) == [exists |-> TRUE, text |-> "json", j |-> "list", items |-> items]
JsonDict(obj) == [exists |-> TRUE, text |-> "json", j |-> "dict", obj |-> obj]
JsonScalar == [exists |-> TRUE, text |-> "json", j |-> "scalar"]
\* a file json.loads rejects, as its lines: blank, not JSON, or a JSON value
Lines(lines) == [exists |-> TRUE, text |-> "lines", lines |-> lines]
BlankLine == [l |-> "blank"]
BadLine == [l |-> "bad"]
ValueLine(v) == [l |-> "value", v |-> v]

\* a JSON value that is not an object (a number, a string, a list, null)
NonObject == [nonobject |-> TRUE]
\* isinstance(e, dict): only objects have .get
IsObject(e) == "name" \in DOMAIN e
AllObjects(items) == \A k \in 1..Len(items) : IsObject(items[k])

RECURSIVE ParsedLines(_)
\* the NDJSON fallback: blank lines and lines json.loads rejects are skipped
ParsedLines(lines) ==
    IF lines = <<>> THEN <<>>
    ELSE IF Head(lines).l = "value"
         THEN <<Head(lines).v>> \o ParsedLines(Tail(lines))
         ELSE ParsedLines(Tail(lines))

Loaded(items) == [outcome |-> "list", items |-> items]

\* load_json_path without the NDJSON fallback: json.loads errors propagate
load_json_path_strict(p) ==
    IF ~p.exists \/ p.text = "undecodable" THEN [outcome |-> "raises"]
    ELSE IF p.text = "json"
         THEN IF p.j = "dict" THEN Loaded(<<p.obj>>)
              ELSE IF p.j = "list" THEN Loaded(p.items)
              ELSE [outcome |-> "scalar"]
         ELSE [outcome |-> "raises"]

\* load_json_path(p): read_text raises for a missing path and for bytes that
\* are not UTF-8; one object is wrapped in a list; any other JSON value is
\* returned as it is; text that is not JSON is read line by line.
load_json_path(p) ==
    IF ~p.exists \/ p.text = "undecodable" THEN [outcome |-> "raises"]
    ELSE IF p.text = "json"
         THEN IF p.j = "dict" THEN Loaded(<<p.obj>>)
              ELSE IF p.j = "list" THEN Loaded(p.items)
              ELSE [outcome |-> "scalar"]
         ELSE Loaded(ParsedLines(p.lines))

\* `not src_path.exists() and not tgt_path.exists()`
paths_exist_either(src_path, tgt_path) == src_path.exists \/ tgt_path.exists

\* the negation of `not src_path.exists() or not tgt_path.exists()`
paths_exist(src_path, tgt_path) == src_path.exists /\ tgt_path.exists

\* an output artifact: absent, or holding the document of a value
Absent == [exists |-> FALSE]
\* write_json(path, data)
write_json(data) == [exists |-> TRUE, data |-> data]

\* the keys of an output entry: the duplicate fields exist only when flagged
BaseKeys == {"name", "name_ar", "transfermarkt_url", "wikipedia_url_provided",
             "transfermarkt_id", "missing"}
\* the keys whose value is p.get of a field no record here has: always None
NullKeys == {"name_ar", "transfermarkt_url", "wikipedia_url_provided"}
DuplicateKeys == {"duplicate", "duplicate_in", "duplicate_groups"}
entry_keys(entry) == IF entry.duplicate THEN BaseKeys \cup DuplicateKeys ELSE BaseKeys

\* one cell: "" for a missing key or None, json.dumps for a list, else the value
EmptyCell == [cell |-> "empty"]
csv_cell(entry, k) ==
    IF k \notin entry_keys(entry) \/ k \in NullKeys THEN EmptyCell
    ELSE IF k \in {"name", "transfermarkt_id"} /\ entry[k].t = "none" THEN EmptyCell
    ELSE IF k \in {"duplicate_in", "duplicate_groups"} THEN [cell |-> "json", v |-> entry[k]]
    ELSE [cell |-> "value", v |-> entry[k]]

\* write_csv(path, data): nothing is written for an empty list; the columns
\* are the union of the entries' keys (in no particular order), one row per
\* entry.
write_csv(old, data) ==
    IF data = <<>> THEN old
    ELSE LET keys == UNION {entry_keys(data[k]) : k \in 1..Len(data)}
         IN [exists |-> TRUE, header |-> keys,
             rows |-> [k \in 1..Len(data) |-> [c \in keys |-> csv_cell(data[k], c)]]]

\* ------------------------------------------------------------------------
\* Runs: the two paths, --fuzzy, and the artifacts already in the directory
\* ------------------------------------------------------------------------
NoFiles == [duplicate_players |-> Absent, missing_json |-> Absent,
            missing_csv |-> Absent, common_players |-> Absent]

\* what an earlier run on source [{"name": "Ab."}] and an empty target wrote
EarlierMissing == <<entry_of(P_name_Ab, FALSE, <<>>, <<>>)>>
EarlierFiles ==
    [duplicate_players |-> write_json([source_duplicates |-> <<>>, target_duplicates |-> <<>>]),
     missing_json |-> write_json(EarlierMissing),
     missing_csv |-> write_csv(Absent, EarlierMissing),
     common_players |-> write_json(<<>>)]

\* two JSON files holding the lists of an input, in an empty directory
FromLists(inp) ==
    [src_file |-> JsonList(inp.source), tgt_file |-> JsonList(inp.target),
     fuzzy_threshold |-> inp.fuzzy_threshold, files |-> NoFiles]

ListRuns ==
    {FromLists(inp) : inp \in GeneralInputs \cup ZeroThresholdInputs \cup Scenarios
                              \cup AliasInputs \cup LargeGroupInputs}

\* the shapes a path can have
FileShapes ==
    {NoPath, NotUtf8, JsonScalar, JsonDict(P_id7_ab),
     JsonList(<<>>), JsonList(<<P_id7_ab>>), JsonList(<<NonObject>>),
     JsonList(<<P_name_Ab, NonObject>>),
     Lines(<<>>), Lines(<<BadLine>>), Lines(<<BlankLine, BadLine>>),
     Lines(<<ValueLine(P_id7_ab), BadLine, ValueLine(P_name_Ab)>>),
     Lines(<<ValueLine(NonObject), ValueLine(P_id7_ab)>>)}

FileRuns ==
    [src_file : FileShapes, tgt_file : FileShapes,
     fuzzy_threshold : {DefaultThreshold}, files : {NoFiles, EarlierFiles}]

Runs == ListRuns \cup FileRuns

\* ------------------------------------------------------------------------
\* State
\* ------------------------------------------------------------------------
VARIABLES
    src_file,          \* what args.source names
    tgt_file,          \* what args.target names
    files,             \* the output artifacts in the working directory
    files0,            \* the artifacts as they were before the tools ran
    raised,            \* the tools that ended with an uncaught exception
    source,            \* src, as last loaded
    target,            \* tgt, as last loaded
    fuzzy_threshold,   \* args.fuzzy, in hundredths
    pc,                \* position in main of find_missing_players_with_duplicates.py
                       \* ("cross": find_cross_duplicates.py runs first, on the same paths)
    dup_src_groups,    \* find_duplicates(src)
    dup_tgt_groups,    \* find_duplicates(tgt)
    target_ids,        \* build_target_lookup(tgt)[0]
    target_normnames,  \* build_target_lookup(tgt)[1]
    idx,               \* number of source records the loop has classified
    missing,           \* the list find_missing_and_flag_duplicates builds
    classified,        \* per classified record: the loop's found and dup_locations
    final_groups,      \* find_common_groups(src, tgt)
    sim,               \* the similarity scorer applied to a pair of texts
    norm               \* normalize_name applied to a value

vars == <<src_file, tgt_file, files, files0, raised, source, target, fuzzy_threshold, pc,
          dup_src_groups, dup_tgt_groups, target_ids, target_normnames, idx, missing,
          classified, final_groups, sim, norm>>

\* what no step of either tool assigns
given == <<src_file, tgt_file, files0, fuzzy_threshold>>

SimIdle == [pc |-> "off", a |-> <<>>, b |-> <<>>, ab |-> <<0, 1>>, ba |-> <<0, 1>>]
NormIdle == [pc |-> "off", name |-> None, variant |-> None,
             once |-> <<>>, twice |-> <<>>, folded |-> <<>>]

Init ==
    /\ \E run \in Runs :
          /\ src_file = run.src_file
          /\ tgt_file = run.tgt_file
          /\ fuzzy_threshold = run.fuzzy_threshold
          /\ files = run.files
          /\ files0 = run.files
    /\ raised = {}
    /\ source = <<>>
    /\ target = <<>>
    /\ pc = "cross"
    /\ dup_src_groups = <<>>
    /\ dup_tgt_groups = <<>>
    /\ target_ids = {}
    /\ target_normnames = {}
    /\ idx = 0
    /\ missing = <<>>
    /\ classified = <<>>
    /\ final_groups = <<>>
    /\ sim = SimIdle
    /\ norm = NormIdle

\* find_cross_duplicates.py main, lines 119-135, on the same two paths.  The
\* two tools share no state, so running this one first loses no behaviour;
\* enumerate(src) raises for a value that is not a list and player.get for an
\* entry that is not an object.
RunFindCommonGroups ==
    /\ pc = "cross"
    /\ pc' = "start"
    /\ IF ~paths_exist(src_file, tgt_file)
       THEN UNCHANGED <<source, target, final_groups, files, raised>>
       ELSE LET src == load_json_path(src_file)
                tgt == load_json_path(tgt_file)
            IN IF src.outcome = "list" /\ tgt.outcome = "list"
               THEN /\ source' = src.items
                    /\ target' = tgt.items
                    /\ IF AllObjects(src.items) /\ AllObjects(tgt.items)
                       THEN /\ final_groups' = find_common_groups(src.items, tgt.items)
                            /\ files' = [files EXCEPT !.common_players = write_json(final_groups')]
                            /\ UNCHANGED raised
                       ELSE /\ raised' = raised \cup {"cross"}
                            /\ UNCHANGED <<final_groups, files>>
               ELSE /\ raised' = raised \cup {"cross"}
                    /\ UNCHANGED <<source, target, final_groups, files>>
    /\ UNCHANGED <<given, dup_src_groups, dup_tgt_groups, target_ids, target_normnames,
                   idx, missing, classified, sim, norm>>

\* main, lines 229-238: the existence check, the two loads, and len() of both
LoadInputs ==
    /\ pc = "start"
    /\ IF ~paths_exist(src_file, tgt_file)
       THEN /\ pc' = "stopped"
            /\ UNCHANGED <<source, target, raised>>
       ELSE LET src == load_json_path(src_file)
                tgt == load_json_path(tgt_file)
            IN IF src.outcome = "list" /\ tgt.outcome = "list"
               THEN /\ source' = src.items
                    /\ target' = tgt.items
                    /\ pc' = "loaded"
                    /\ UNCHANGED raised
               ELSE /\ pc' = "raised"
                    /\ raised' = raised \cup {"missing"}
                    /\ UNCHANGED <<source, target>>
    /\ UNCHANGED <<given, files, dup_src_groups, dup_tgt_groups, target_ids, target_normnames,
                   idx, missing, classified, final_groups, sim, norm>>

\* main, lines 240-247: the two intra-dataset duplicate passes, then
\* duplicate_players.json; key_for_player raises on an entry without .get
RunFindDuplicates ==
    /\ pc = "loaded"
    /\ IF AllObjects(source) /\ AllObjects(target)
       THEN /\ dup_src_groups' = find_duplicates(source)
            /\ dup_tgt_groups' = find_duplicates(target)
            /\ files' = [files EXCEPT !.duplicate_players =
                            write_json([source_duplicates |-> dup_src_groups',
                                        target_duplicates |-> dup_tgt_groups'])]
            /\ pc' = "lookup"
            /\ UNCHANGED raised
       ELSE /\ pc' = "raised"
            /\ raised' = raised \cup {"missing"}
            /\ UNCHANGED <<dup_src_groups, dup_tgt_groups, files>>
    /\ UNCHANGED <<given, source, target, target_ids, target_normnames,
                   idx, missing, classified, final_groups, sim, norm>>

\* main, line 250
RunBuildTargetLookup ==
    /\ pc = "lookup"
    /\ target_ids' = build_target_lookup(target).ids
    /\ target_normnames' = build_target_lookup(target).normnames
    /\ pc' = "classify"
    /\ UNCHANGED <<given, files, raised, source, target, dup_src_groups, dup_tgt_groups,
                   idx, missing, classified, final_groups, sim, norm>>

\* find_missing_and_flag_duplicates: one pass of `for p in source`
ClassifyNext ==
    /\ pc = "classify"
    /\ idx < Len(source)
    /\ LET p == source[idx + 1]
           found == found_of(p, target_ids, target_normnames, fuzzy_threshold)
           entry == entry_of(p, found, dup_src_groups, dup_tgt_groups)
           out == appended(entry, found)
       IN /\ missing' = missing \o out
          /\ classified' = Append(classified,
                                  [found |-> found, duplicate_in |-> entry.duplicate_in,
                                   emitted |-> Len(out), at |-> Len(missing) + 1])
    /\ idx' = idx + 1
    /\ UNCHANGED <<given, files, raised, source, target, pc, dup_src_groups, dup_tgt_groups,
                   target_ids, target_normnames, final_groups, sim, norm>>

\* find_missing_and_flag_duplicates: the loop is over, `return missing`; main,
\* lines 255-256, then writes missing_players.json and missing_players.csv
ReturnMissing ==
    /\ pc = "classify"
    /\ idx = Len(source)
    /\ files' = [files EXCEPT !.missing_json = write_json(missing),
                              !.missing_csv = write_csv(files.missing_csv, missing)]
    /\ pc' = "done"
    /\ UNCHANGED <<given, raised, source, target, dup_src_groups, dup_tgt_groups,
                   target_ids, target_normnames, idx, missing, classified,
                   final_groups, sim, norm>>

Next ==
    \/ RunFindCommonGroups
    \/ LoadInputs
    \/ RunFindDuplicates
    \/ RunBuildTargetLookup
    \/ ClassifyNext
    \/ ReturnMissing

Spec == Init /\ [][Next]_vars

\* what the two tools' steps assign, idle in the specifications of one function
main_vars == <<src_file, tgt_file, files, files0, raised, source, target, fuzzy_threshold,
               pc, dup_src_groups, dup_tgt_groups, target_ids, target_normnames, idx,
               missing, classified, final_groups>>

MainIdle ==
    /\ src_file = NoPath
    /\ tgt_file = NoPath
    /\ files = NoFiles
    /\ files0 = NoFiles
    /\ raised = {}
    /\ source = <<>>
    /\ target = <<>>
    /\ fuzzy_threshold = DefaultThreshold
    /\ pc = "off"
    /\ dup_src_groups = <<>>
    /\ dup_tgt_groups = <<>>
    /\ target_ids = {}
    /\ target_normnames = {}
    /\ idx = 0
    /\ missing = <<>>
    /\ classified = <<>>
    /\ final_groups = <<>>

\* ------------------------------------------------------------------------
\* The similarity scorer on its own: similar(a, b) and similar(b, a) for
\* every pair of texts over SimAlphabet of at most MaxSimLen characters
\* ------------------------------------------------------------------------
SimAlphabet == {"a", "b", "c"}

SimInit ==
    /\ MainIdle
    /\ norm = NormIdle
    /\ \E a \in SeqsUpTo(SimAlphabet, MaxSimLen), b \in SeqsUpTo(SimAlphabet, MaxSimLen) :
          sim = [pc |-> "input", a |-> a, b |-> b, ab |-> <<0, 1>>, ba |-> <<0, 1>>]

\* r = similar(a, b)
ScoreAB ==
    /\ sim.pc = "input"
    /\ sim' = [sim EXCEPT !.ab = similar(sim.a, sim.b), !.pc = "ab"]
    /\ UNCHANGED <<main_vars, norm>>

\* r = similar(b, a)
ScoreBA ==
    /\ sim.pc = "ab"
    /\ sim' = [sim EXCEPT !.ba = similar(sim.b, sim.a), !.pc = "done"]
    /\ UNCHANGED <<main_vars, norm>>

SimNext == ScoreAB \/ ScoreBA

SimSpec == SimInit /\ [][SimNext]_vars

\* ------------------------------------------------------------------------
\* normalize_name on its own: applied to a value, to its own result, and to
\* a variant of the value that differs in case or in diacritics only
\* ------------------------------------------------------------------------
NormAlphabet == {"a", "B", "u", "U+00FC", "U+0308", ".", " ", "\t", "_"}

\* "Müller" (precomposed and decomposed), "Muller", "muller", "MÜLLER"
Muller_pre == <<"M", "U+00FC", "l", "l", "e", "r">>
Muller_dec == <<"M", "u", "U+0308", "l", "l", "e", "r">>
Muller_plain == <<"M", "u", "l", "l", "e", "r">>
Muller_lower == <<"m", "u", "l", "l", "e", "r">>
Muller_upper == <<"M", "U+00DC", "L", "L", "E", "R">>
MullerForms == {Muller_pre, Muller_dec, Muller_plain, Muller_lower, Muller_upper}

NormNames ==
    {StrV(x) : x \in SeqsUpTo(NormAlphabet, MaxNormLen) \cup MullerForms}
    \cup {None, IntV(0), IntV(42)}

\* str.upper() and str.lower() of one character of these texts
UpperChar(c) == IF \E k \in 1..26 : LowerCase[k] = c
                THEN UpperCase[CHOOSE k \in 1..26 : LowerCase[k] = c]
                ELSE IF c = "U+00FC" THEN "U+00DC" ELSE c
LowerChar(c) == IF c = "U+00DC" THEN "U+00FC" ELSE Lower(c)

RECURSIVE Unaccent(_)
\* the text without its diacritics
Unaccent(x) ==
    IF x = <<>> THEN <<>>
    ELSE (CASE Head(x) = "U+00FC" -> <<"u">>
            [] Head(x) = "U+00DC" -> <<"U">>
            [] Head(x) = "U+0308" -> <<>>
            [] OTHER -> <<Head(x)>>) \o Unaccent(Tail(x))

\* the text with a diaeresis on every u
Accent(x) == [k \in 1..Len(x) |-> CASE x[k] = "u" -> "U+00FC"
                                    [] x[k] = "U" -> "U+00DC"
                                    [] OTHER -> x[k]]

Variants(name) ==
    IF name.t # "str" THEN {name}
    ELSE {StrV([k \in 1..Len(name.s) |-> UpperChar(name.s[k])]),
          StrV([k \in 1..Len(name.s) |-> LowerChar(name.s[k])]),
          StrV(Unaccent(name.s)),
          StrV(Accent(name.s))}

NormInit ==
    /\ MainIdle
    /\ sim = SimIdle
    /\ \E name \in NormNames :
          norm = [pc |-> "input", name |-> name, variant |-> name,
                  once |-> <<>>, twice |-> <<>>, folded |-> <<>>]

\* n = normalize_name(name)
NormalizeOnce ==
    /\ norm.pc = "input"
    /\ norm' = [norm EXCEPT !.once = normalize_name(norm.name), !.pc = "once"]
    /\ UNCHANGED <<main_vars, sim>>

\* normalize_name(n)
NormalizeTwice ==
    /\ norm.pc = "once"
    /\ norm' = [norm EXCEPT !.twice = normalize_name(StrV(norm.once)), !.pc = "twice"]
    /\ UNCHANGED <<main_vars, sim>>

\* normalize_name of a variant of name
NormalizeVariant ==
    /\ norm.pc = "twice"
    /\ \E v \in Variants(norm.name) :
          norm' = [norm EXCEPT !.variant = v, !.folded = normalize_name(v), !.pc = "done"]
    /\ UNCHANGED <<main_vars, sim>>

NormNext == NormalizeOnce \/ NormalizeTwice \/ NormalizeVariant

NormSpec == NormInit /\ [][NormNext]_vars

\* ------------------------------------------------------------------------
\* Vocabulary of the properties
\* ------------------------------------------------------------------------
Range(x) == {x[k] : k \in 1..Len(x)}

\* the canonical keys a record holds, and those of them that are tid keys
KeysOf(p) == Range(key_for_player(p))
IdKeysOf(p) == {k \in KeysOf(p) : Len(k) >= Len(TidPrefix) /\ SubSeq(k, 1, Len(TidPrefix)) = TidPrefix}

\* the records of a list that hold key k (0-based positions)
Holders(players, k) == {j \in 1..Len(players) : k \in KeysOf(players[j])}

\* the loop has classified source[k]
Classified(k) == k \in 1..Len(classified)

\* the output entry of source[k], when it has one
EntryOf(k) == missing[classified[k].at]

ThresholdInRange == fuzzy_threshold > 0 /\ fuzzy_threshold <= 100

\* (b) exact normalized name, (c) fuzzy normalized name
NameRule(p) == nn_of(p) # <<>> /\ \E j \in 1..Len(target) : nn_of(target[j]) = nn_of(p)
FuzzyRule(p) ==
    /\ nn_of(p) # <<>>
    /\ \E j \in 1..Len(target) :
          FracGe(similar(nn_of(p), nn_of(target[j])), <<fuzzy_threshold, 100>>)

\* (a) as claimed: the identifier key is the identifier key of a target record
IdKeyRule(p) == \E j \in 1..Len(target) : IdKeysOf(p) \cap IdKeysOf(target[j]) # {}
\* (a) as coded: that, and the identifier is not the empty text
IdKeyRuleNonEmpty(p) ==
    \E j \in 1..Len(target) : (IdKeysOf(p) \cap IdKeysOf(target[j])) \ {TidPrefix} # {}

\* ------------------------------------------------------------------------
\* C1
\* ------------------------------------------------------------------------
\* C1: every classified source record has exactly one of three outcomes:
\* no output entry (exactly when found and not duplicate-flagged), one entry
\* with missing = true (exactly when not found), one entry with
\* missing = false (exactly when found and duplicate-flagged); the entries of
\* different records are different entries and the output holds nothing else.
C1_ExactlyOneOutcome ==
    /\ \A k \in 1..Len(classified) :
          LET c == classified[k]
          IN /\ c.emitted \in {0, 1}
             /\ (c.emitted = 0) <=> (c.found /\ c.duplicate_in = <<>>)
             /\ c.emitted = 1 =>
                   /\ c.at \in 1..Len(missing)
                   /\ EntryOf(k).missing = ~c.found
                   /\ ~EntryOf(k).missing => EntryOf(k).duplicate
             /\ \A j \in 1..Len(classified) :
                   (j # k /\ c.emitted = 1 /\ classified[j].emitted = 1)
                      => classified[j].at # c.at
    /\ Len(missing) = Cardinality({k \in 1..Len(classified) : classified[k].emitted = 1})

\* a run that dropped one record and emitted another with missing = false
C1_Witness ==
    /\ pc = "done"
    /\ \E k \in 1..Len(classified) : classified[k].emitted = 0
    /\ \E k \in 1..Len(classified) :
          classified[k].emitted = 1 /\ ~EntryOf(k).missing

\* ------------------------------------------------------------------------
\* C2
\* ------------------------------------------------------------------------
\* C2, as claimed: for a threshold in (0, 1], a record is found exactly when
\* (a) its identifier key is the identifier key of a target record, or (b) its
\* normalized name is non-empty and is a target's normalized name, or (c) its
\* normalized name is non-empty and some target name is similar enough.
C2_FoundIffKeyNameOrFuzzy ==
    ThresholdInRange =>
       \A k \in 1..Len(classified) :
          classified[k].found <=>
             (IdKeyRule(source[k]) \/ NameRule(source[k]) \/ FuzzyRule(source[k]))

\* C2, amended: the same, with (a) holding only for a non-empty identifier.
C2_FoundIffNonEmptyIdNameOrFuzzy ==
    ThresholdInRange =>
       \A k \in 1..Len(classified) :
          classified[k].found <=>
             (IdKeyRuleNonEmpty(source[k]) \/ NameRule(source[k]) \/ FuzzyRule(source[k]))

\* a record found by the fuzzy rule alone, at exactly the threshold
C2_Witness ==
    /\ pc = "done"
    /\ ThresholdInRange
    /\ \E k \in 1..Len(classified) :
          /\ classified[k].found
          /\ ~IdKeyRule(source[k])
          /\ ~NameRule(source[k])
          /\ \E j \in 1..Len(target) :
                FracEq(similar(nn_of(source[k]), nn_of(target[j])), <<fuzzy_threshold, 100>>)

\* ------------------------------------------------------------------------
\* C3
\* ------------------------------------------------------------------------
IntraSig(g) == Range(g.indices)
CrossSig(g) == {<<g.occurrences[k].file, g.occurrences[k].index>> : k \in 1..Len(g.occurrences)}

UniqueIntra(groups) ==
    /\ \A g, h \in 1..Len(groups) : g # h => IntraSig(groups[g]) # IntraSig(groups[h])
    /\ \A g \in 1..Len(groups) :
          Len(groups[g].indices) >= 2 /\ Cardinality(IntraSig(groups[g])) >= 2

\* C3: no two groups of find_duplicates (source or target) and no two groups
\* of find_common_groups have the same set of members, and every group has at
\* least 2 occurrences.
C3_UniqueSignatures ==
    /\ UniqueIntra(dup_src_groups)
    /\ UniqueIntra(dup_tgt_groups)
    /\ \A g, h \in 1..Len(final_groups) :
          g # h => CrossSig(final_groups[g]) # CrossSig(final_groups[h])
    /\ \A g \in 1..Len(final_groups) :
          /\ final_groups[g].total_count >= 2
          /\ Cardinality(CrossSig(final_groups[g])) >= 2

\* two source records linked by a tid key and by a name key: one group each
C3_Witness ==
    /\ pc = "done"
    /\ Len(source) >= 2
    /\ \E k1, k2 \in KeysOf(source[1]) :
          /\ k1 # k2
          /\ Cardinality(Holders(source, k1)) >= 2
          /\ Holders(source, k1) = Holders(source, k2)
    /\ Len(dup_src_groups) = 1
    /\ Len(final_groups) >= 1

\* ------------------------------------------------------------------------
\* C4
\* ------------------------------------------------------------------------
\* C4: a classified source record has "target" in duplicate_in exactly when
\* one of its own canonical keys is held by two or more target records.
C4_TargetFlagIffKeyHeldTwice ==
    \A k \in 1..Len(classified) :
       ("target" \in Range(classified[k].duplicate_in))
          <=> \E key \in KeysOf(source[k]) : Cardinality(Holders(target, key)) >= 2

\* ------------------------------------------------------------------------
\* C5
\* ------------------------------------------------------------------------
SharesSourceKey(k) ==
    \E j \in 1..Len(source) : j # k /\ KeysOf(source[j]) \cap KeysOf(source[k]) # {}

\* C5: a classified source record that shares a canonical key with another
\* source record is emitted with duplicate = true and "source" in its
\* duplicate_in; one that shares none has no "source" in its duplicate_in.
C5_SourceFlagIffSharedKey ==
    \A k \in 1..Len(classified) :
       /\ SharesSourceKey(k) =>
             /\ classified[k].emitted = 1
             /\ EntryOf(k).duplicate
             /\ "source" \in Range(EntryOf(k).duplicate_in)
       /\ ~SharesSourceKey(k) => "source" \notin Range(classified[k].duplicate_in)

\* a record that shares only its name key, while the reported group of that
\* bucket is the only group and the record also holds an unshared tid key
C5_Witness ==
    /\ pc = "done"
    /\ \E k \in 1..Len(classified) :
          /\ SharesSourceKey(k)
          /\ \E key \in KeysOf(source[k]) : Cardinality(Holders(source, key)) = 1
          /\ "source" \in Range(EntryOf(k).duplicate_in)

\* ------------------------------------------------------------------------
\* C6
\* ------------------------------------------------------------------------
AnaHorvatRun ==
    /\ pc = "done"
    /\ source = <<P_AnaHorvat>>
    /\ target = <<P_AnaHorvath>>
    /\ fuzzy_threshold = DefaultThreshold

\* C6, as claimed: for source [{"name": "Ana Horvat"}], target
\* [{"name": "Ana Horvath"}] and threshold 0.90 the similarity of the two
\* normalized names is below the threshold and the record is emitted with
\* missing = true.
C6_AnaHorvatMissing ==
    AnaHorvatRun =>
       /\ ~FracGe(similar(nn_of(source[1]), nn_of(target[1])), <<fuzzy_threshold, 100>>)
       /\ Len(missing) = 1
       /\ missing[1].missing

\* C6, amended: the similarity is 20/21, which is at least the threshold; the
\* record is found by the fuzzy rule and is not emitted.
C6_AnaHorvatFound ==
    AnaHorvatRun =>
       /\ FracEq(similar(nn_of(source[1]), nn_of(target[1])), <<20, 21>>)
       /\ FracGe(<<20, 21>>, <<fuzzy_threshold, 100>>)
       /\ classified[1].found
       /\ ~IdKeyRule(source[1]) /\ ~NameRule(source[1])
       /\ missing = <<>>

C6_Witness == AnaHorvatRun /\ Len(classified) = 1

\* ------------------------------------------------------------------------
\* C7
\* ------------------------------------------------------------------------
Text42 == <<"4", "2">>

TwoSourceRecords42 ==
    /\ pc = "done"
    /\ Len(source) = 2
    /\ source[1].transfermarkt_id = StrV(Text42)
    /\ source[2].transfermarkt_id = StrV(Text42)
    /\ \A j \in 1..Len(target) :
          KeysOf(target[j]) \cap (KeysOf(source[1]) \cup KeysOf(source[2])) = {}

OneSourceGroupOfTwo(key) ==
    /\ Len(dup_src_groups) = 1
    /\ Len(dup_src_groups[1].indices) = 2
    /\ Len(dup_src_groups[1].members) = 2
    /\ dup_src_groups[1].key = key
    /\ Len(missing) = 2
    /\ \A k \in 1..2 : classified[k].emitted = 1 /\ EntryOf(k).duplicate_in = <<"source">>

\* C7, as claimed: two source records with transfermarkt_id "42" and no
\* target record sharing a key with them give exactly one source duplicate
\* group, of size 2, with key id::42, and both are reported with
\* duplicate_in = ["source"].
C7_OneGroupKeyId42 ==
    TwoSourceRecords42 => OneSourceGroupOfTwo(<<"i", "d", ":", ":">> \o Text42)

\* C7, amended: the same, the key of the group being tid::42.
C7_OneGroupKeyTid42 ==
    TwoSourceRecords42 => OneSourceGroupOfTwo(<<"t", "i", "d", ":", ":">> \o Text42)

\* the two records also share their name, so two buckets hold the same pair
C7_Witness ==
    /\ TwoSourceRecords42
    /\ nn_of(source[1]) # <<>>
    /\ nn_of(source[1]) = nn_of(source[2])
    /\ target # <<>>

\* ------------------------------------------------------------------------
\* C8
\* ------------------------------------------------------------------------
\* C8: with an empty target and a threshold in (0, 1], every classified
\* source record is emitted with missing = true, and no group of
\* find_common_groups has both "source" and "target" in present_in.
C8_EmptyTargetAllMissing ==
    (target = <<>> /\ ThresholdInRange) =>
       /\ \A k \in 1..Len(classified) :
             /\ ~classified[k].found
             /\ classified[k].emitted = 1
             /\ EntryOf(k).missing
       /\ \A g \in 1..Len(final_groups) :
             ~({"source", "target"} \subseteq Range(final_groups[g].present_in))

\* two source records, one with identifier and name, that form a common group
C8_Witness ==
    /\ pc = "done"
    /\ target = <<>>
    /\ ThresholdInRange
    /\ Len(missing) = 2
    /\ \E k \in 1..Len(source) : tid_of(source[k]).t # "none" /\ nn_of(source[k]) # <<>>
    /\ final_groups # <<>>

\* ------------------------------------------------------------------------
\* C9
\* ------------------------------------------------------------------------
NoKeyInDuplicateGroup(p) ==
    KeysOf(p) \cap (GroupKeys(dup_src_groups) \cup GroupKeys(dup_tgt_groups)) = {}

\* C9, as claimed: a classified source record whose identifier is the
\* identifier of a target record is found, whatever the names, and is dropped
\* from the report when none of its keys is the key of a duplicate group.
C9_SameIdFoundAndDropped ==
    \A k \in 1..Len(classified) :
       IdKeyRule(source[k]) =>
          /\ classified[k].found
          /\ NoKeyInDuplicateGroup(source[k]) => classified[k].emitted = 0

\* C9, amended: the same for an identifier that is not the empty text.
C9_SameNonEmptyIdFoundAndDropped ==
    \A k \in 1..Len(classified) :
       IdKeyRuleNonEmpty(source[k]) =>
          /\ classified[k].found
          /\ NoKeyInDuplicateGroup(source[k]) => classified[k].emitted = 0

\* the scenario: Jon Smith / John Smith, both with transfermarkt_id "7"
C9_Witness ==
    /\ pc = "done"
    /\ source = <<P_JonSmith>>
    /\ target = <<P_JohnSmith>>
    /\ nn_of(source[1]) # nn_of(target[1])
    /\ classified[1].found
    /\ missing = <<>>

\* ------------------------------------------------------------------------
\* C10 (under SimSpec)
\* ------------------------------------------------------------------------
\* x occurs in y as a contiguous block
Contains(y, x) ==
    \E i \in 0..(Len(y) - Len(x)) : \A d \in 1..Len(x) : y[i + d] = x[d]

SimScored == sim.pc \in {"ab", "done"}
NoCommonChar == Range(sim.a) \cap Range(sim.b) = {}
InUnitInterval(r) == FracGe(r, <<0, 1>>) /\ FracGe(<<1, 1>>, r)

\* C11, as claimed: similar(a, a) is 1.0, similar(a, b) is 0.0 whenever a and
\* b have no character in common, and the score lies in [0, 1].
C11_OneZeroRange ==
    SimScored =>
       /\ sim.a = sim.b => FracEq(sim.ab, <<1, 1>>)
       /\ NoCommonChar => FracEq(sim.ab, <<0, 1>>)
       /\ InUnitInterval(sim.ab)

\* C11, amended: the score is 0.0 for texts without a common character
\* unless both are empty; two empty texts score 1.0.
C11_OneZeroRangeNonEmpty ==
    SimScored =>
       /\ sim.a = sim.b => FracEq(sim.ab, <<1, 1>>)
       /\ (NoCommonChar /\ Len(sim.a) + Len(sim.b) > 0) => FracEq(sim.ab, <<0, 1>>)
       /\ InUnitInterval(sim.ab)
       /\ sim.pc = "done" => InUnitInterval(sim.ba)

\* a text of full length scored against itself
C11_Witness ==
    /\ sim.pc = "done"
    /\ Len(sim.a) = MaxSimLen
    /\ sim.a = sim.b
    /\ sim.ab = <<2 * MaxSimLen, 2 * MaxSimLen>>

\* ------------------------------------------------------------------------
\* C12 (under NormSpec)
\* ------------------------------------------------------------------------
\* C12: normalize_name(normalize_name(s)) = normalize_name(s); a value that
\* is not text normalizes to the empty string; texts that differ only in case
\* or in diacritics normalize to the same string, and "Müller", "Muller" and
\* "muller" all normalize to "muller".
C12_IdempotentCaseDiacriticBlind ==
    /\ norm.pc \in {"twice", "done"} => norm.twice = norm.once
    /\ (norm.pc \in {"once", "twice", "done"} /\ norm.name.t # "str") => norm.once = <<>>
    /\ norm.pc = "done" => norm.folded = norm.once
    /\ (norm.pc \in {"once", "twice", "done"} /\ norm.name.t = "str"
           /\ norm.name.s \in MullerForms) => norm.once = Muller_lower

\* "Müller" normalized, normalized again, and compared with "Muller"
C12_Witness ==
    /\ norm.pc = "done"
    /\ norm.name = StrV(Muller_pre)
    /\ norm.variant = StrV(Muller_plain)
    /\ norm.once = Muller_lower
    /\ norm.twice = Muller_lower
    /\ norm.folded = Muller_lower

\* ------------------------------------------------------------------------
\* C13
\* ------------------------------------------------------------------------
\* text that parses: whole as JSON, or line by line
Parsed(f) == f.exists /\ f.text \in {"json", "lines"}

\* C13: for any parsed content of the two files, entries that are not objects
\* are skipped at load time, and neither tool raises an exception.
C13_MalformedSkippedNeverRaises ==
    (Parsed(src_file) /\ Parsed(tgt_file)) =>
       /\ raised = {}
       /\ pc # "raised"
       /\ AllObjects(source)
       /\ AllObjects(target)

\* ------------------------------------------------------------------------
\* C14
\* ------------------------------------------------------------------------
NothingGrouped ==
    /\ dup_src_groups = <<>>
    /\ dup_tgt_groups = <<>>
    /\ final_groups = <<>>
    /\ target_ids = {}
    /\ target_normnames = {}
    /\ classified = <<>>
    /\ missing = <<>>

\* C14: when the source path or the target path does not exist, both tools
\* return without loading, without grouping and without raising, and every
\* output artifact is as it was before.
C14_MissingPathNothingDone ==
    (~src_file.exists \/ ~tgt_file.exists) =>
       /\ files = files0
       /\ source = <<>>
       /\ target = <<>>
       /\ NothingGrouped
       /\ raised = {}
       /\ pc \in {"cross", "start", "stopped"}

\* the target path is missing, the source is a loadable file, and the
\* artifacts of an earlier run are still there after both tools returned
C14_Witness ==
    /\ pc = "stopped"
    /\ src_file = JsonList(<<P_id7_ab>>)
    /\ ~tgt_file.exists
    /\ files0 = EarlierFiles
    /\ files = EarlierFiles

\* ------------------------------------------------------------------------
\* C15
\* ------------------------------------------------------------------------
\* an existing file that is not a JSON document and has no line that is one
Garbage(f) ==
    /\ f.exists
    /\ f.text = "lines"
    /\ \A k \in 1..Len(f.lines) : f.lines[k].l # "value"

\* an existing file that holds one object or only objects
Good(f) ==
    /\ f.exists
    /\ \/ f.text = "json" /\ f.j = "dict"
       \/ f.text = "json" /\ f.j = "list" /\ AllObjects(f.items)
       \/ /\ f.text = "lines"
          /\ \E k \in 1..Len(f.lines) : f.lines[k].l = "value"
          /\ \A k \in 1..Len(f.lines) : f.lines[k].l = "value" => IsObject(f.lines[k].v)

GarbageRun ==
    /\ Garbage(src_file) \/ Garbage(tgt_file)
    /\ Garbage(src_file) \/ Good(src_file)
    /\ Garbage(tgt_file) \/ Good(tgt_file)

\* C15, as claimed: when an existing input file is neither a JSON document
\* nor has any parseable line, the run aborts before any grouping and no
\* output artifact is written.
C15_GarbageAborts ==
    (Garbage(src_file) \/ Garbage(tgt_file)) =>
       /\ files = files0
       /\ NothingGrouped
       /\ pc \in {"cross", "start", "stopped", "raised"}

\* C15, amended: such a file loads as an empty list; no error is raised, the
\* run goes on through grouping and classification and writes its artifacts.
C15_GarbageLoadsEmpty ==
    GarbageRun =>
       /\ raised = {}
       /\ pc \notin {"stopped", "raised"}
       /\ pc # "cross" =>
             /\ Garbage(src_file) => source = <<>>
             /\ Garbage(tgt_file) => target = <<>>
             /\ files.common_players = write_json(final_groups)
       /\ pc \in {"lookup", "classify", "done"} => files.duplicate_players.exists
       /\ pc = "done" =>
             /\ files.missing_json = write_json(missing)
             /\ Garbage(src_file) => missing = <<>>

\* a source file of unparseable lines only, a target with records: the run
\* ended and wrote an empty report
C15_Witness ==
    /\ pc = "done"
    /\ src_file = Lines(<<BlankLine, BadLine>>)
    /\ target # <<>>
    /\ files0 = NoFiles
    /\ files.missing_json = write_json(<<>>)
    /\ files.duplicate_players.exists
    /\ files.common_players.exists

\* ------------------------------------------------------------------------
\* C16
\* ------------------------------------------------------------------------
\* the rows of the tabular report; a report that does not exist has none
RowsOf(csv) == IF csv.exists THEN csv.rows ELSE <<>>

\* the cell shows the value of key k
Shows(c, k, v) ==
    IF k \in {"name", "transfermarkt_id"} /\ v.t = "none" THEN c = EmptyCell
    ELSE c.cell \in {"value", "json"} /\ c.v = v

RowMatches(row, entry) ==
    /\ entry_keys(entry) \subseteq DOMAIN row
    /\ \A k \in DOMAIN row :
          IF k \in entry_keys(entry) \ NullKeys
          THEN Shows(row[k], k, entry[k])
          ELSE row[k] = EmptyCell

\* C16: after a run that reached the report step, missing_players.csv holds
\* exactly one row per entry of missing_players.json, in the same order.
C16_CsvEquivalentToJson ==
    pc = "done" =>
       LET rows == RowsOf(files.missing_csv)
           entries == files.missing_json.data
       IN /\ Len(rows) = Len(entries)
          /\ \A k \in 1..Len(rows) : RowMatches(rows[k], entries[k])

\* ------------------------------------------------------------------------
\* C17
\* ------------------------------------------------------------------------
Grouped == pc \in {"lookup", "classify", "done"}

AllKeysOf(players) == UNION {KeysOf(players[j]) : j \in 1..Len(players)}

\* the bucket of key k in one list, as 0-based positions
BucketOf(players, k) == {j - 1 : j \in Holders(players, k)}

\* the bucket of key k over both lists, as (file, position) pairs
CrossBucketOf(k) ==
    {<<"source", i>> : i \in BucketOf(source, k)} \cup {<<"target", i>> : i \in BucketOf(target, k)}

\* every key of `players` held twice is the key of exactly one group of
\* `groups`, and that group's members are the key's bucket
IntraEveryKeyInOneGroup(players, groups) ==
    \A k \in AllKeysOf(players) :
       Cardinality(BucketOf(players, k)) >= 2 =>
          /\ Cardinality({g \in 1..Len(groups) : groups[g].key = k}) = 1
          /\ \A g \in 1..Len(groups) :
                groups[g].key = k => IntraSig(groups[g]) = BucketOf(players, k)

CrossEveryKeyInOneGroup ==
    \A k \in AllKeysOf(source) \cup AllKeysOf(target) :
       Cardinality(CrossBucketOf(k)) >= 2 =>
          /\ Cardinality({g \in 1..Len(final_groups) : k \in Range(final_groups[g].keys)}) = 1
          /\ \A g \in 1..Len(final_groups) :
                k \in Range(final_groups[g].keys) => CrossSig(final_groups[g]) = CrossBucketOf(k)

\* C17: in find_duplicates (source and target) and in find_common_groups,
\* every key held by two or more occurrences is recorded in exactly one
\* emitted group, whose members are exactly that key's bucket.
C17_EveryKeyInOneGroup ==
    Grouped =>
       /\ IntraEveryKeyInOneGroup(source, dup_src_groups)
       /\ IntraEveryKeyInOneGroup(target, dup_tgt_groups)
       /\ CrossEveryKeyInOneGroup

\* ------------------------------------------------------------------------
\* C18
\* ------------------------------------------------------------------------
AliasOrder(p) == <<p.transfermarkt_id, p.transfermarktId, p.transfermarkt_sp, p.transfermarkt>>

\* the identifier as claimed: the first alias that is present and non-null,
\* else the generic id when it is an integer or a string of digits
ClaimedIdentifier(p) ==
    LET present == {k \in 1..4 : AliasOrder(p)[k].t # "none"}
    IN IF present # {}
       THEN AliasOrder(p)[CHOOSE k \in present : \A j \in present : k <= j]
       ELSE IF p.id.t = "int" \/ (p.id.t = "str" /\ IsDigit(p.id.s)) THEN p.id ELSE None

ClaimedIdText(p) ==
    IF ClaimedIdentifier(p).t = "none" THEN None ELSE StrV(Str(ClaimedIdentifier(p)))

ClaimedIdKeys(p) ==
    IF ClaimedIdentifier(p).t = "none" THEN {} ELSE {TidPrefix \o Str(ClaimedIdentifier(p))}

\* C18: in key extraction, in the target lookup and in classification the
\* identifier is the first alias (transfermarkt_id, transfermarktId,
\* "transfermarkt id", transfermarkt) that is present and non-null, whatever
\* its value; failing that the generic id, if an integer or all digits.
C18_FirstNonNullAlias ==
    /\ Grouped =>
          /\ \A j \in 1..Len(source) : IdKeysOf(source[j]) = ClaimedIdKeys(source[j])
          /\ \A j \in 1..Len(target) : IdKeysOf(target[j]) = ClaimedIdKeys(target[j])
    /\ pc \in {"classify", "done"} =>
          target_ids = {Str(ClaimedIdentifier(target[j])) :
                           j \in {i \in 1..Len(target) : ClaimedIdentifier(target[i]).t # "none"}}
    /\ \A k \in 1..Len(classified) :
          classified[k].emitted = 1 => EntryOf(k).transfermarkt_id = ClaimedIdText(source[k])

\* ------------------------------------------------------------------------
\* C19
\* ------------------------------------------------------------------------
\* neither an identifier nor a non-empty normalized name
Keyless(p) == tid_of(p).t = "none" /\ nn_of(p) = <<>>

\* the buckets of a clustering map that hold the occurrence at (file, i)
BucketsWith(d, file, i) ==
    {n \in 1..Len(d) : \E m \in 1..Len(d[n].items) :
        d[n].items[m].index = i /\ (file = "" \/ d[n].items[m].file = file)}

\* the occurrence sits in exactly one bucket, alone, under the key `key`
AloneUnder(d, file, i, key) ==
    /\ Cardinality(BucketsWith(d, file, i)) = 1
    /\ \A n \in BucketsWith(d, file, i) : d[n].key = key /\ Len(d[n].items) = 1

KeylessApart(players, groups, file) ==
    \A j \in 1..Len(players) :
       Keyless(players[j]) =>
          /\ AloneUnder(by_key(players, Len(players)), "", j - 1,
                        IndexPrefix \o IntToStr(j - 1))
          /\ AloneUnder(groups_map(combined(source, target), Len(source) + Len(target)),
                        file, j - 1, RawPrefix(file) \o IntToStr(j - 1))
          /\ \A g \in 1..Len(groups) : (j - 1) \notin IntraSig(groups[g])
          /\ \A g \in 1..Len(final_groups) : <<file, j - 1>> \notin CrossSig(final_groups[g])

\* C19: a record with no identifier and an empty normalized name is in both
\* clustering maps, alone under the fallback key of its own occurrence; it is
\* a member of no emitted group and is never flagged duplicate.
C19_KeylessNeverGrouped ==
    Grouped =>
       /\ KeylessApart(source, dup_src_groups, "source")
       /\ KeylessApart(target, dup_tgt_groups, "target")
       /\ \A k \in 1..Len(classified) :
             Keyless(source[k]) =>
                /\ classified[k].duplicate_in = <<>>
                /\ classified[k].emitted = 1 => ~EntryOf(k).duplicate

\* two keyless source records and one in the target; both source records
\* were reported as missing
C19_Witness ==
    /\ pc = "done"
    /\ Cardinality({j \in 1..Len(source) : Keyless(source[j])}) >= 2
    /\ \E j \in 1..Len(target) : Keyless(target[j])
    /\ \A k \in 1..Len(classified) :
          Keyless(source[k]) => classified[k].emitted = 1 /\ EntryOf(k).missing

\* ------------------------------------------------------------------------
\* C20
\* ------------------------------------------------------------------------
GroupsIn(dataset) == IF dataset = "source" THEN dup_src_groups ELSE dup_tgt_groups

\* the preview's identifier is the member's identifier; a member without one
\* (or with an empty one) shows none
ShowsIdentifier(v, m) ==
    IF Truthy(tid_of(m)) THEN v = tid_of(m) ELSE ~Truthy(v)

\* a summary of group g: full member count, name and identifier of the first
\* min(5, size) members
SummaryMatches(sm, g) ==
    /\ sm.member_count = Len(g.members)
    /\ Len(sm.members_preview) = Min(5, Len(g.members))
    /\ \A i \in 1..Len(sm.members_preview) :
          /\ sm.members_preview[i].name = g.members[i].name
          /\ ShowsIdentifier(sm.members_preview[i].transfermarkt_id, g.members[i])

\* C20: for every emitted record flagged duplicate, duplicate_groups holds
\* one summary per (key of the record, dataset) pair in which the key is the
\* key of a duplicate group; the summary has the group's full member count
\* and previews the name and identifier of its first min(5, size) members.
C20_OneSummaryPerKeyAndDataset ==
    \A k \in 1..Len(classified) :
       (classified[k].emitted = 1 /\ EntryOf(k).duplicate) =>
          LET dg == EntryOf(k).duplicate_groups
          IN /\ \A i \in 1..Len(dg) : dg[i].key \in KeysOf(source[k])
             /\ \A key \in KeysOf(source[k]) :
                   LET sums == {i \in 1..Len(dg) : dg[i].key = key}
                       sets == {d \in {"source", "target"} : key \in GroupKeys(GroupsIn(d))}
                   IN /\ Cardinality(sums) = Cardinality(sets)
                      /\ \A d \in sets : \E i \in sums :
                            SummaryMatches(dg[i], GroupOf(GroupsIn(d), key))

\* ------------------------------------------------------------------------
\* C21
\* ------------------------------------------------------------------------
LookedUp == pc \in {"classify", "done"}

\* the groups of find_common_groups that hold the occurrence ("source", i)
\* and have present_in = ["source", "target"]
CommonGroupsOf(i) ==
    {g \in 1..Len(final_groups) :
        /\ <<"source", i>> \in CrossSig(final_groups[g])
        /\ final_groups[g].present_in = <<"source", "target">>}

\* C21, as claimed: a source record is found by the exact identifier rule or
\* the exact name rule exactly when find_common_groups emits a group that
\* holds its occurrence and is present in both datasets.
C21_ExactFoundIffCommonGroup ==
    LookedUp =>
       \A k \in 1..Len(source) :
          found_exact(source[k], target_ids, target_normnames) <=> CommonGroupsOf(k - 1) # {}

\* C21, amended: exactly when such a group has a linking key other than the
\* key of the empty identifier, tid:: ; a record found by an exact rule is
\* classified found.
C21_ExactFoundIffNonEmptyKeyGroup ==
    LookedUp =>
       \A k \in 1..Len(source) :
          /\ found_exact(source[k], target_ids, target_normnames)
                <=> \E g \in CommonGroupsOf(k - 1) :
                       Range(final_groups[g].keys) \ {TidPrefix} # {}
          /\ (Classified(k) /\ found_exact(source[k], target_ids, target_normnames))
                => classified[k].found

\* one source record found by the identifier rule alone and sitting in a
\* common group, another sharing only the empty identifier with the target:
\* in a common group, yet not found
C21_Witness ==
    /\ pc = "done"
    /\ \E k \in 1..Len(source) :
          /\ found_exact(source[k], target_ids, target_normnames)
          /\ nn_of(source[k]) \notin target_normnames
          /\ CommonGroupsOf(k - 1) # {}
    /\ \E k \in 1..Len(source) :
          /\ ~found_exact(source[k], target_ids, target_normnames)
          /\ ~classified[k].found
          /\ CommonGroupsOf(k - 1) # {}

====
